---- MODULE Spec2Model ----
(***************************************************************************)
(* Model of the step-composition pipeline of src/pipeline.py: Context,     *)
(* the PipelineStep variants (FuncStep, LegacyAdapter,                     *)
(* BeforeAfterDecorator, NestedPipelineStep, SingletonStep) and Pipeline.  *)
(***************************************************************************)
EXTENDS Integers, Sequences, FiniteSets, TLC

VARIABLES
    steps,      \* Pipeline._steps of the two Pipeline objects: [Pipelines -> Seq(step)]
    instances,  \* SingletonMeta._instances, as the set of memoized SingletonStep objects
    created,    \* number of SingletonStep objects constructed so far
    held,       \* the references SingletonStep() has returned to its callers
    ctx,        \* Context._data of the Context handed to Pipeline.execute
    calls,      \* the callables invoked by the last execute, in invocation order
    raised,     \* the error the last operation raised, "none" when it returned
    last,       \* the last operation and its arguments
    thr,        \* the threads that call SingletonStep() at the same time
    out,        \* the values returned by the calls made so far, in call order
    heap,       \* the mutable objects the values of a Context refer to
    copy,       \* the dict returned by Context.to_dict()
    db          \* StudentDatabase._students

vars == <<steps, instances, created, held, ctx, calls, raised, last, thr,
          out, heap, copy, db>>

\* the state outside the pipeline, its Context and the singleton
aux == <<out, heap, copy, db>>

AuxInit ==
    /\ out = <<>>
    /\ heap = <<>>
    /\ copy = <<>>
    /\ db = <<>>

----------------------------------------------------------------------------
(* Bounds of the model *)

\* most steps the two pipelines hold together
MaxSteps == 3
\* most calls of pipeline_to_string in a row
MaxDescribes == 2
\* longest step list of a pipeline that is built before the model starts
MaxDrawn == 2
\* longest list a value of the Context grows to
MaxLen == 2
\* most students added to a StudentDatabase
MaxStudents == 3
\* longest "src" string the text pipeline is run on, besides the sentences of
\* the tests
MaxText == 4
\* SingletonStep objects that may ever be constructed
MaxObjects == 2
\* threads that call SingletonStep() at the same time
NumThreads == 3

----------------------------------------------------------------------------
(* The step objects.  An object is its class, its identity n and its fields. *)

\* FuncStep(name, action).  The actions of the model are
\*   "append":       ctx.set("log", ctx.get("log", []) + [name])
\*   "append_raise": the same write, then raise
FuncStep(n, name, action) ==
    [cls |-> "FuncStep", n |-> n, name |-> name, action |-> action]

\* an instance of a user-defined step class: __eq__ compares the names, and
\* execute appends the name to the "log" list
UserStep(n, name) == [cls |-> "UserStep", n |-> n, name |-> name]

\* BeforeAfterDecorator(step, before, after).  A hook is "None" (absent),
\* "mark" (appends "before" or "after" to the "log" list) or "raise".
BeforeAfterDecorator(n, step, before, after) ==
    [cls |-> "BeforeAfterDecorator", n |-> n, step |-> step,
     before |-> before, after |-> after]

\* NestedPipelineStep(name, pipeline)
NestedPipelineStep(n, name, pipeline) ==
    [cls |-> "NestedPipelineStep", n |-> n, name |-> name, pipeline |-> pipeline]

\* LegacyAdapter(name, legacy_func, extra)
LegacyAdapter(n, name, legacy_func) ==
    [cls |-> "LegacyAdapter", n |-> n, name |-> name, legacy_func |-> legacy_func]

\* the n-th SingletonStep object constructed
SingletonObj(n) == [cls |-> "SingletonStep", n |-> n]

F1 == FuncStep(1, "A", "append")
F2 == FuncStep(2, "B", "append_raise")
F3 == FuncStep(3, "C", "append")
U1 == UserStep(1, "U")
U2 == UserStep(2, "U")
D1 == BeforeAfterDecorator(1, F3, "mark", "mark")
N1 == NestedPipelineStep(1, "Nested", "inner")
\* a decorator of a step that raises, and one whose after hook raises
D4 == BeforeAfterDecorator(4, F2, "mark", "mark")
D5 == BeforeAfterDecorator(5, F1, "None", "raise")
L1 == LegacyAdapter(1, "LegacyUpper", <<[do |-> "legacy_uppercase", key |-> "text", value |-> <<>>]>>)

Pipelines == {"outer", "inner"}

\* The steps a caller can hand to a pipeline.  The inner pipeline takes no
\* NestedPipelineStep, so that no pipeline contains itself.
Addable(p) ==
    IF p = "outer" THEN {F1, F2, U1, U2, D1, N1} \cup held
    ELSE {F1, F2}

\* step.name of the steps that are given one (SingletonStep.__init__ sets its own)
Name(s) == IF s.cls = "SingletonStep" THEN "SingletonNoOp" ELSE s.name

\* a == b on step objects: object identity, unless the class defines __eq__
StepEq(a, b) ==
    \/ a = b
    \/ a.cls = "UserStep" /\ b.cls = "UserStep" /\ Name(a) = Name(b)

----------------------------------------------------------------------------
(* Python list operations used by Pipeline *)

\* list.append(x)
ListAppend(l, x) == Append(l, x)

\* the position list.insert(index, x) inserts before (0-based)
InsertPos(l, index) ==
    LET n == Len(l)
        i == IF index < 0 THEN index + n ELSE index
    IN  IF i < 0 THEN 0 ELSE IF i > n THEN n ELSE i

\* a list.insert that puts x behind the element at the position
ListInsertAfter(l, index, x) ==
    LET k == IF InsertPos(l, index) < Len(l) THEN InsertPos(l, index) + 1 ELSE Len(l)
    IN  SubSeq(l, 1, k) \o <<x>> \o SubSeq(l, k + 1, Len(l))

\* list.insert(index, x)
ListInsert(l, index, x) ==
    LET k == InsertPos(l, index)
    IN  SubSeq(l, 1, k) \o <<x>> \o SubSeq(l, k + 1, Len(l))

\* the 1-based position list.remove(x) deletes, 0 when it raises ValueError
RemovePos(l, x) ==
    IF \E i \in 1..Len(l) : StepEq(l[i], x)
    THEN CHOOSE i \in 1..Len(l) :
            /\ StepEq(l[i], x)
            /\ \A j \in 1..(i - 1) : ~StepEq(l[j], x)
    ELSE 0

\* list.remove(x), where it does not raise
ListRemove(l, x) ==
    LET k == RemovePos(l, x)
    IN  SubSeq(l, 1, k - 1) \o SubSeq(l, k + 1, Len(l))

----------------------------------------------------------------------------
(* Pipeline: add_step, insert_step, remove_step *)

\* the program has neither printed nor run the pipeline yet
Building == last.op \notin {"describe", "execute"}

TotalSteps == Len(steps["outer"]) + Len(steps["inner"])

\* the record kept of the last operation
Op(op, p, step, index, before) ==
    [op |-> op, p |-> p, step |-> step, index |-> index, before |-> before,
     initial |-> <<>>]

NoOp == Op("none", "outer", F1, 0, <<>>)

AddStep(p, s) ==
    /\ Building
    /\ TotalSteps < MaxSteps
    /\ steps' = [steps EXCEPT ![p] = ListAppend(@, s)]
    /\ raised' = "none"
    /\ last' = Op("add_step", p, s, 0, steps[p])
    /\ UNCHANGED <<aux, thr, instances, created, held, ctx, calls>>

InsertStep(p, index, s) ==
    /\ Building
    /\ TotalSteps < MaxSteps
    /\ steps' = [steps EXCEPT ![p] = ListInsert(@, index, s)]
    /\ raised' = "none"
    /\ last' = Op("insert_step", p, s, index, steps[p])
    /\ UNCHANGED <<aux, thr, instances, created, held, ctx, calls>>

RemoveStep(p, s) ==
    /\ Building
    /\ IF RemovePos(steps[p], s) = 0
       THEN raised' = "ValueError" /\ steps' = steps
       ELSE raised' = "none" /\ steps' = [steps EXCEPT ![p] = ListRemove(@, s)]
    /\ last' = Op("remove_step", p, s, 0, steps[p])
    /\ UNCHANGED <<aux, thr, instances, created, held, ctx, calls>>

----------------------------------------------------------------------------
(* SingletonMeta.__call__, run by one thread of control *)

\* a SingletonMeta.__call__ that constructs an object on every call
SingletonCallNoMemo ==
    /\ Building
    /\ created < MaxObjects
    /\ created' = created + 1
    /\ instances' = {SingletonObj(created + 1)}
    /\ held' = held \cup instances'
    /\ raised' = "none"
    /\ last' = Op("SingletonStep", "outer", F1, created, <<>>)
    /\ UNCHANGED <<aux, thr, steps, ctx, calls>>

\* s = SingletonStep(); last.index keeps how many objects existed before the call
SingletonCall ==
    /\ Building
    /\ created < MaxObjects
    /\ IF instances = {}
       THEN /\ created' = created + 1
            /\ instances' = {SingletonObj(created + 1)}
       ELSE UNCHANGED <<instances, created>>
    /\ held' = held \cup instances'
    /\ raised' = "none"
    /\ last' = Op("SingletonStep", "outer", F1, created, <<>>)
    /\ UNCHANGED <<aux, thr, steps, ctx, calls>>

----------------------------------------------------------------------------
(* Context *)

\* Context.get(key, default)
CtxGet(data, key, default) == IF key \in DOMAIN data THEN data[key] ELSE default

\* Context.set(key, value)
CtxSet(data, key, value) ==
    [k \in DOMAIN data \cup {key} |-> IF k = key THEN value ELSE data[k]]

\* Context.to_dict(): a new dict with the same bindings
ToDict(data) == [k \in DOMAIN data |-> data[k]]

----------------------------------------------------------------------------
(* Execution.  A run is threaded through a record                           *)
(*   data:  Context._data                                                   *)
(*   err:   the exception in flight, "none" while the code runs normally    *)
(*   calls: the callables invoked so far, in order                          *)

Ev(kind, who) == [kind |-> kind, who |-> who]

Start(initial) == [data |-> initial, err |-> "none", calls |-> <<>>]

Called(st, kind, who) == [st EXCEPT !.calls = Append(@, Ev(kind, who))]

\* the actions given to FuncStep, and UserStep.execute
AppendLog(data, x) == CtxSet(data, "log", Append(CtxGet(data, "log", <<>>), x))

\* The actions of the text pipeline.  A str is the list of its characters.

UpperLetters == {"A", "D", "E", "H", "M", "N", "O", "S", "T", "W"}
LowerLetters == {"a", "b", "c", "d", "e", "f", "g", "h", "i", "j", "k", "l", "m",
                 "n", "o", "p", "q", "r", "s", "t", "u", "v", "w", "x", "y", "z"}
Digits == {"1"}

\* ch.isalnum()
IsAlnum(ch) == ch \in UpperLetters \cup LowerLetters \cup Digits

\* ch.lower()
Lower(ch) ==
    CASE ch = "A" -> "a"
      [] ch = "D" -> "d"
      [] ch = "E" -> "e"
      [] ch = "H" -> "h"
      [] ch = "M" -> "m"
      [] ch = "N" -> "n"
      [] ch = "O" -> "o"
      [] ch = "S" -> "s"
      [] ch = "T" -> "t"
      [] ch = "W" -> "w"
      [] OTHER -> ch

\* "Default sample text, with SOME punctuation!"
DefaultText ==
    <<"D", "e", "f", "a", "u", "l", "t", " ", "s", "a", "m", "p", "l", "e", " ", "t", "e", "x", "t", ",", " ", "w", "i", "t", "h", " ", "S", "O", "M", "E", " ", "p", "u", "n", "c", "t", "u", "a", "t", "i", "o", "n", "!">>

\* load_text_action(context)
load_text_action(data) ==
    LET text == IF "src" \in DOMAIN data THEN data["src"] ELSE DefaultText
    IN  CtxSet(data, "text", text)

\* a normalize_action that keeps the case of the letters
normalize_actionKeepCase(data) ==
    LET text == CtxGet(data, "text", <<>>)
    IN  CtxSet(data, "text",
               [i \in 1..Len(text) |-> IF IsAlnum(text[i]) THEN text[i] ELSE " "])

\* normalize_action(context)
normalize_action(data) ==
    LET text == CtxGet(data, "text", <<>>)
    IN  CtxSet(data, "text",
               [i \in 1..Len(text) |-> IF IsAlnum(text[i]) THEN Lower(text[i]) ELSE " "])

\* text.split(): the words between runs of whitespace, scanned from the i-th
\* character on; cur is the word being read and acc the words read
RECURSIVE Split(_, _, _, _)
Split(text, i, cur, acc) ==
    LET done == IF cur = <<>> THEN acc ELSE Append(acc, cur)
    IN  IF i > Len(text) THEN done
        ELSE IF text[i] = " " THEN Split(text, i + 1, <<>>, done)
        ELSE Split(text, i + 1, Append(cur, text[i]), acc)

\* tokenize_action(context)
tokenize_action(data) ==
    LET NonEmpty(t) == t # <<>>
    IN  CtxSet(data, "tokens",
               SelectSeq(Split(CtxGet(data, "text", <<>>), 1, <<>>, <<>>), NonEmpty))

stopwords ==
    {<<"a", "n", "d">>, <<"o", "r">>, <<"t", "h", "e">>, <<"w", "i", "t", "h">>, <<"a">>,
     <<"a", "n">>, <<"i", "n">>, <<"o", "n">>, <<"o", "f">>}

\* filter_stopwords_action(context)
filter_stopwords_action(data) ==
    LET Kept(t) == t \notin stopwords
    IN  CtxSet(data, "tokens", SelectSeq(CtxGet(data, "tokens", <<>>), Kept))

\* ' '.join(tokens)
RECURSIVE Join(_)
Join(tokens) ==
    IF tokens = <<>> THEN <<>>
    ELSE IF Len(tokens) = 1 THEN tokens[1]
    ELSE tokens[1] \o <<" ">> \o Join(Tail(tokens))

\* join_action(context)
join_action(data) == CtxSet(data, "result", Join(CtxGet(data, "tokens", <<>>)))

RunAction(action, name, st) ==
    CASE action = "append" -> [st EXCEPT !.data = AppendLog(@, name)]
      [] action = "append_raise" ->
            [st EXCEPT !.data = AppendLog(@, name), !.err = "StepError"]
      [] action = "load_text_action" -> [st EXCEPT !.data = load_text_action(@)]
      [] action = "normalize_action" -> [st EXCEPT !.data = normalize_action(@)]
      [] action = "tokenize_action" -> [st EXCEPT !.data = tokenize_action(@)]
      [] action = "filter_stopwords_action" ->
            [st EXCEPT !.data = filter_stopwords_action(@)]
      [] action = "join_action" -> [st EXCEPT !.data = join_action(@)]

\* the hooks given to BeforeAfterDecorator
RunHook(hook, tag, st) ==
    CASE hook = "mark" -> [st EXCEPT !.data = AppendLog(@, tag)]
      [] hook = "raise" -> [st EXCEPT !.err = "HookError"]

\* str.upper() on the letters of the model
Upper(ch) ==
    CASE ch = "a" -> "A"
      [] ch = "b" -> "B"
      [] ch = "c" -> "C"
      [] ch = "x" -> "X"
      [] OTHER -> ch

\* legacy_uppercase(data, extra)
legacy_uppercase(data) ==
    IF "text" \in DOMAIN data
    THEN [data EXCEPT !["text"] = [i \in 1..Len(@) |-> Upper(@[i])]]
    ELSE data

\* A legacy function of the model is a list of statements on its dict:
\*   "legacy_uppercase": legacy_uppercase(data, extra)
\*   "set":   data[key] = value
\*   "del":   del data[key]      (KeyError when key is absent)
\*   "raise": raise
Stmt(do, key, value) == [do |-> do, key |-> key, value |-> value]

\* one statement of a legacy function, on [data, err]
LegacyStmt(stmt, r) ==
    CASE stmt.do = "legacy_uppercase" -> [r EXCEPT !.data = legacy_uppercase(@)]
      [] stmt.do = "set" -> [r EXCEPT !.data = CtxSet(@, stmt.key, stmt.value)]
      [] stmt.do = "del" ->
            IF stmt.key \in DOMAIN r.data
            THEN [r EXCEPT !.data = [k \in DOMAIN @ \ {stmt.key} |-> @[k]]]
            ELSE [r EXCEPT !.err = "KeyError"]
      [] stmt.do = "raise" -> [r EXCEPT !.err = "LegacyError"]

\* legacy_func(data, extra): the dict as the function leaves it and the
\* exception it raised
RECURSIVE LegacyCall(_, _)
LegacyCall(f, r) ==
    IF f = <<>> \/ r.err # "none" THEN r
    ELSE LegacyCall(Tail(f), LegacyStmt(Head(f), r))

\* the loop of LegacyAdapter.execute that writes the snapshot back
RECURSIVE WriteBack(_, _, _)
WriteBack(data, snapshot, keys) ==
    IF keys = {} THEN data
    ELSE LET k == CHOOSE x \in keys : TRUE
         IN  WriteBack(CtxSet(data, k, snapshot[k]), snapshot, keys \ {k})

\* FuncStep.execute
FuncStepExecute(s, st) == RunAction(s.action, s.name, Called(st, "action", s))

\* a LegacyAdapter.execute that replaces the Context by the snapshot
LegacyAdapterExecuteReplace(s, st) ==
    LET r == LegacyCall(s.legacy_func, [data |-> ToDict(st.data), err |-> "none"])
    IN  IF r.err # "none"
        THEN [Called(st, "legacy", s) EXCEPT !.err = r.err]
        ELSE [Called(st, "legacy", s) EXCEPT !.data = r.data]

\* a LegacyAdapter.execute that writes the snapshot back even when the legacy
\* function raised
LegacyAdapterExecuteFinally(s, st) ==
    LET r == LegacyCall(s.legacy_func, [data |-> ToDict(st.data), err |-> "none"])
    IN  [Called(st, "legacy", s) EXCEPT
            !.data = WriteBack(@, r.data, DOMAIN r.data), !.err = r.err]

\* LegacyAdapter.execute
LegacyAdapterExecute(s, st) ==
    LET r == LegacyCall(s.legacy_func, [data |-> ToDict(st.data), err |-> "none"])
    IN  IF r.err # "none"
        THEN [Called(st, "legacy", s) EXCEPT !.err = r.err]
        ELSE [Called(st, "legacy", s) EXCEPT
                 !.data = WriteBack(@, r.data, DOMAIN r.data)]

\* SingletonStep.execute
SingletonStepExecute(s, st) == st

RECURSIVE StepExecute(_, _), RunSteps(_, _, _)

\* a BeforeAfterDecorator.execute that runs the wrapped step before both hooks
BeforeAfterDecoratorExecuteLate(s, st) ==
    LET w == StepExecute(s.step, st)
        b == IF w.err = "none" /\ s.before # "None"
             THEN RunHook(s.before, "before", Called(w, "before", s))
             ELSE w
    IN  IF b.err = "none" /\ s.after # "None"
        THEN RunHook(s.after, "after", Called(b, "after", s))
        ELSE b

\* BeforeAfterDecorator.execute
BeforeAfterDecoratorExecute(s, st) ==
    LET b == IF s.before # "None"
             THEN RunHook(s.before, "before", Called(st, "before", s))
             ELSE st
        w == IF b.err = "none" THEN StepExecute(s.step, b) ELSE b
    IN  IF w.err = "none" /\ s.after # "None"
        THEN RunHook(s.after, "after", Called(w, "after", s))
        ELSE w

\* a NestedPipelineStep.execute that runs the inner pipeline on a copy of the Context
NestedPipelineStepExecuteCopy(s, st) ==
    LET r == RunSteps(steps[s.pipeline], 1, st)
    IN  [r EXCEPT !.data = st.data]

\* a NestedPipelineStep.execute that catches what the inner pipeline raises
NestedPipelineStepExecuteCatch(s, st) ==
    LET r == RunSteps(steps[s.pipeline], 1, st)
    IN  [r EXCEPT !.err = "none"]

\* NestedPipelineStep.execute
NestedPipelineStepExecute(s, st) == RunSteps(steps[s.pipeline], 1, st)

\* step.execute(context), dispatched on the class of the step
StepExecute(s, st) ==
    LET e == Called(st, "execute", s)
    IN  CASE s.cls = "FuncStep" -> FuncStepExecute(s, e)
          [] s.cls = "UserStep" -> [e EXCEPT !.data = AppendLog(@, s.name)]
          [] s.cls = "LegacyAdapter" -> LegacyAdapterExecute(s, e)
          [] s.cls = "BeforeAfterDecorator" -> BeforeAfterDecoratorExecute(s, e)
          [] s.cls = "NestedPipelineStep" -> NestedPipelineStepExecute(s, e)
          [] s.cls = "SingletonStep" -> SingletonStepExecute(s, e)

\* the loop of Pipeline.execute from the i-th step of l on: an exception ends it
RunSteps(l, i, st) ==
    IF i > Len(l) \/ st.err # "none" THEN st
    ELSE RunSteps(l, i + 1, StepExecute(l[i], st))

\* l reversed
Reverse(l) == [i \in 1..Len(l) |-> l[Len(l) + 1 - i]]

\* a Pipeline.execute that walks the list from its end
PipelineExecuteReversed(p, st) == RunSteps(Reverse(steps[p]), 1, st)

\* a Pipeline.execute that restores the Context when a step raises
PipelineExecuteRollback(p, st) ==
    LET r == RunSteps(steps[p], 1, st)
    IN  IF r.err # "none" THEN [r EXCEPT !.data = st.data] ELSE r

\* Pipeline.execute(context)
PipelineExecute(p, st) == RunSteps(steps[p], 1, st)

\* the mappings a caller builds the Context from
InitialContexts ==
    { <<>>, [log |-> <<"init">>], [text |-> <<"a", "b", "c">>] }

\* ctx = Context(initial); outer.execute(ctx).  The run ends the program.
Execute(initial) ==
    LET r == PipelineExecute("outer", Start(initial))
    IN  /\ Building
        /\ ctx' = r.data
        /\ calls' = r.calls
        /\ raised' = r.err
        /\ last' = [Op("execute", "outer", F1, 0, steps["outer"]) EXCEPT !.initial = initial]
        /\ UNCHANGED <<aux, thr, steps, instances, created, held>>

----------------------------------------------------------------------------
(* describe.  The text in a StringIO is the list of the pieces written to   *)
(* it; an f-string is written as its literal parts and its fields.           *)

\* " " * indent, for the indents describe is called with
Spaces(indent) ==
    CASE indent = 0 -> ""
      [] indent = 2 -> "  "

\* BeforeAfterDecorator.__init__: self.name = name or
\* f"BeforeAfter({getattr(step, 'name', step.__class__.__name__)})"
RECURSIVE NamePieces(_)
NamePieces(s) ==
    IF s.cls = "BeforeAfterDecorator"
    THEN <<"BeforeAfter(">> \o NamePieces(s.step) \o <<")">>
    ELSE <<Name(s)>>

RECURSIVE StepDescribe(_, _), DescribeSteps(_, _, _, _)

\* FuncStep.describe
FuncStepDescribe(s, buf) == buf \o <<"FuncStep: ", s.name, "\n">>

\* LegacyAdapter.describe
LegacyAdapterDescribe(s, buf) ==
    buf \o <<"LegacyAdapter: ", s.name, " (wraps legacy_func)", "\n">>

\* SingletonStep.describe
SingletonStepDescribe(s, buf) == buf \o <<"SingletonStep: ", Name(s), "\n">>

\* the describe of the user-defined step class
UserStepDescribe(s, buf) == buf \o <<"UserStep: ", s.name, "\n">>

\* BeforeAfterDecorator.describe
BeforeAfterDecoratorDescribe(s, buf) ==
    StepDescribe(s.step,
        buf \o <<"Decorator: ">> \o NamePieces(s) \o <<"\n">> \o <<"  wraps -> ">>)

\* a Pipeline.describe whose header counts one step too few
PipelineDescribeOffByOne(l, buf, indent) ==
    DescribeSteps(l, 1, indent,
        buf \o <<Spaces(indent), "Pipeline with ", ToString(Len(l) - 1), " steps:", "\n">>)

\* Pipeline.describe(builder, indent) of the pipeline whose _steps is l
PipelineDescribe(l, buf, indent) ==
    DescribeSteps(l, 1, indent,
        buf \o <<Spaces(indent), "Pipeline with ", ToString(Len(l)), " steps:", "\n">>)

\* NestedPipelineStep.describe
NestedPipelineStepDescribe(s, buf) ==
    PipelineDescribe(steps[s.pipeline],
        buf \o <<"NestedPipelineStep: ", s.name, "\n">>, 2)

\* step.describe(builder), dispatched on the class of the step
StepDescribe(s, buf) ==
    CASE s.cls = "FuncStep" -> FuncStepDescribe(s, buf)
      [] s.cls = "UserStep" -> UserStepDescribe(s, buf)
      [] s.cls = "LegacyAdapter" -> LegacyAdapterDescribe(s, buf)
      [] s.cls = "BeforeAfterDecorator" -> BeforeAfterDecoratorDescribe(s, buf)
      [] s.cls = "NestedPipelineStep" -> NestedPipelineStepDescribe(s, buf)
      [] s.cls = "SingletonStep" -> SingletonStepDescribe(s, buf)

\* the loop of Pipeline.describe, from the i-th step of l on
DescribeSteps(l, i, indent, buf) ==
    IF i > Len(l) THEN buf
    ELSE DescribeSteps(l, i + 1, indent,
            StepDescribe(l[i], buf \o <<Spaces(indent), " ", ToString(i), ". ">>))

\* a pipeline_to_string that writes to the buffer of the previous call
PipelineToStringShared(p) ==
    PipelineDescribe(steps[p], IF out = <<>> THEN <<>> ELSE out[Len(out)], 0)

\* pipeline_to_string(pipeline)
PipelineToString(p) == PipelineDescribe(steps[p], <<>>, 0)

\* text = pipeline_to_string(outer); last.before keeps the steps the pipeline
\* had when the first of the calls in a row was made
Describe ==
    /\ last.op # "execute"
    /\ Len(out) < MaxDescribes
    /\ out' = Append(out, PipelineToString("outer"))
    /\ raised' = "none"
    /\ last' = Op("describe", "outer", F1, 0,
                  IF last.op = "describe" THEN last.before ELSE steps["outer"])
    /\ UNCHANGED <<heap, copy, db, thr, steps, instances, created, held, ctx, calls>>

----------------------------------------------------------------------------
(* SingletonMeta.__call__, run by several threads.  The interpreter may     *)
(* switch threads between the membership test, the construction of the     *)
(* object (SingletonStep.__init__ is Python code), the store into           *)
(* _instances and the final lookup.                                         *)

Threads == 1..NumThreads

NoObj == [cls |-> "None", n |-> 0]

\* a thread about to call SingletonStep()
Idle == [pc |-> "call", obj |-> NoObj, ret |-> NoObj]

\* if cls not in SingletonMeta._instances:
Check(t) ==
    /\ thr[t].pc = "call"
    /\ thr' = [thr EXCEPT ![t].pc = IF instances = {} THEN "construct" ELSE "return"]
    /\ UNCHANGED <<aux, steps, instances, created, held, ctx, calls, raised, last>>

\* super().__call__(*args, **kwargs)
Construct(t) ==
    /\ thr[t].pc = "construct"
    /\ created' = created + 1
    /\ thr' = [thr EXCEPT ![t].pc = "store", ![t].obj = SingletonObj(created + 1)]
    /\ UNCHANGED <<aux, steps, instances, held, ctx, calls, raised, last>>

\* SingletonMeta._instances[cls] = ...
Store(t) ==
    /\ thr[t].pc = "store"
    /\ instances' = {thr[t].obj}
    /\ thr' = [thr EXCEPT ![t].pc = "return"]
    /\ UNCHANGED <<aux, steps, created, held, ctx, calls, raised, last>>

\* return SingletonMeta._instances[cls]
Return(t) ==
    /\ thr[t].pc = "return"
    /\ \E o \in instances :
          /\ thr' = [thr EXCEPT ![t].pc = "done", ![t].ret = o]
          /\ held' = held \cup {o}
    /\ UNCHANGED <<aux, steps, instances, created, ctx, calls, raised, last>>

----------------------------------------------------------------------------

Init ==
    /\ steps = [p \in Pipelines |-> <<>>]
    /\ instances = {}
    /\ created = 0
    /\ held = {}
    /\ ctx = <<>>
    /\ calls = <<>>
    /\ raised = "none"
    /\ last = NoOp
    /\ thr = [t \in Threads |-> Idle]
    /\ AuxInit

Next ==
    \/ \E p \in Pipelines : \E s \in Addable(p) : AddStep(p, s)
    \/ \E p \in Pipelines : \E s \in Addable(p) :
          \E index \in -(Len(steps[p]) + 1) .. (Len(steps[p]) + 1) : InsertStep(p, index, s)
    \/ \E p \in Pipelines : \E s \in Addable(p) : RemoveStep(p, s)
    \/ SingletonCall
    \/ Describe
    \/ \E initial \in InitialContexts : Execute(initial)

Spec == Init /\ [][Next]_vars

\* several threads, each calling SingletonStep() once
NextSingleton ==
    \/ \E t \in Threads : Check(t)
    \/ \E t \in Threads : Construct(t)
    \/ \E t \in Threads : Store(t)
    \/ \E t \in Threads : Return(t)

SpecSingleton == Init /\ [][NextSingleton]_vars

----------------------------------------------------------------------------
(* One step run on its own: ctx = Context(initial); step.execute(ctx) *)

Hooks == {"None", "mark", "raise"}

\* the steps a decorator of the model wraps
Wrappable == {F1, F2, U1, L1, SingletonObj(1), D1, D4, N1}

Decorators ==
    { BeforeAfterDecorator(2, w, b, a) : w \in Wrappable, b \in Hooks, a \in Hooks }

LegacyKeys == {"text", "extra"}

\* the statements and the legacy functions of the model
Stmts ==
    {Stmt("legacy_uppercase", "text", <<>>), Stmt("raise", "text", <<>>)}
        \cup {Stmt("set", k, <<"x">>) : k \in LegacyKeys}
        \cup {Stmt("del", k, <<>>) : k \in LegacyKeys}

LegacyFuncs ==
    {<<>>} \cup {<<a>> : a \in Stmts} \cup {<<a, b>> : a \in Stmts, b \in Stmts}

Adapters == { LegacyAdapter(2, "L", f) : f \in LegacyFuncs }

StepContexts ==
    InitialContexts \cup { [text |-> <<"a", "b", "c">>, extra |-> <<"e">>, log |-> <<>>] }

\* ctx = Context(initial), for a step about to be run
InitSteps ==
    /\ steps = [p \in Pipelines |-> <<>>]
    /\ instances = {}
    /\ created = 0
    /\ held = {}
    /\ calls = <<>>
    /\ raised = "none"
    /\ thr = [t \in Threads |-> Idle]
    /\ AuxInit
    /\ \E s \in Decorators \cup Adapters : \E initial \in StepContexts :
          /\ ctx = ToDict(initial)
          /\ last = [Op("Context", "outer", s, 0, <<>>) EXCEPT !.initial = initial]

\* step.execute(ctx)
ExecuteStep ==
    /\ last.op = "Context"
    /\ LET r == StepExecute(last.step, Start(ctx))
       IN  /\ ctx' = r.data
           /\ calls' = r.calls
           /\ raised' = r.err
    /\ last' = [last EXCEPT !.op = "step.execute"]
    /\ UNCHANGED <<aux, thr, steps, instances, created, held>>

NextSteps == ExecuteStep

SpecSteps == InitSteps /\ [][NextSteps]_vars

----------------------------------------------------------------------------
(* Context.to_dict and its caller.  A dict binds keys to objects: ctx and   *)
(* copy map a key to the address of its value, heap maps an address to the  *)
(* object there.  A str is immutable, a list can be changed in place.       *)

Str(val) == [kind |-> "str", val |-> val]
List(val) == [kind |-> "list", val |-> val]

\* the objects of the caller: "s", ["a"] and []
Objects == <<Str(<<"s">>), List(<<"a">>), List(<<>>)>>
Addrs == DOMAIN Objects
ContextKeys == {"text", "tokens"}

\* what the bindings of the dict d show: every key with the content of its value
View(d) == [k \in DOMAIN d |-> heap[d[k]].val]

CallOn(op) == [Op(op, "outer", F1, 0, View(ctx)) EXCEPT !.initial = View(copy)]

\* ctx = Context(initial)
InitContext ==
    /\ heap = Objects
    /\ \E initial \in {<<>>, [tokens |-> 2], [text |-> 1, tokens |-> 2]} :
          ctx = ToDict(initial)
    /\ copy = <<>>
    /\ out = <<>>
    /\ db = <<>>
    /\ steps = [p \in Pipelines |-> <<>>]
    /\ instances = {}
    /\ created = 0
    /\ held = {}
    /\ calls = <<>>
    /\ raised = "none"
    /\ last = NoOp
    /\ thr = [t \in Threads |-> Idle]

\* m = ctx.to_dict()
CallToDict ==
    /\ last.op = "none"
    /\ copy' = ToDict(ctx)
    /\ last' = CallOn("to_dict")
    /\ UNCHANGED <<heap, ctx, out, db, steps, instances, created, held, calls, raised, thr>>

\* m[key] = value
CopySet(key, addr) ==
    /\ last.op # "none"
    /\ copy' = CtxSet(copy, key, addr)
    /\ last' = CallOn("m.set")
    /\ UNCHANGED <<heap, ctx, out, db, steps, instances, created, held, calls, raised, thr>>

\* del m[key]
CopyDel(key) ==
    /\ last.op # "none"
    /\ key \in DOMAIN copy
    /\ copy' = [k \in DOMAIN copy \ {key} |-> copy[k]]
    /\ last' = CallOn("m.del")
    /\ UNCHANGED <<heap, ctx, out, db, steps, instances, created, held, calls, raised, thr>>

\* m[key].append("x")
CopyAppend(key) ==
    /\ last.op # "none"
    /\ key \in DOMAIN copy
    /\ heap[copy[key]].kind = "list"
    /\ Len(heap[copy[key]].val) < MaxLen
    /\ heap' = [heap EXCEPT ![copy[key]].val = Append(@, "x")]
    /\ last' = CallOn("m.append")
    /\ UNCHANGED <<copy, ctx, out, db, steps, instances, created, held, calls, raised, thr>>

\* ctx.set(key, value)
ContextSet(key, addr) ==
    /\ last.op # "none"
    /\ ctx' = CtxSet(ctx, key, addr)
    /\ last' = CallOn("ctx.set")
    /\ UNCHANGED <<heap, copy, out, db, steps, instances, created, held, calls, raised, thr>>

NextContext ==
    \/ CallToDict
    \/ \E key \in ContextKeys : \E addr \in Addrs : CopySet(key, addr)
    \/ \E key \in ContextKeys : CopyDel(key)
    \/ \E key \in ContextKeys : CopyAppend(key)
    \/ \E key \in ContextKeys : \E addr \in Addrs : ContextSet(key, addr)

SpecContext == InitContext /\ [][NextContext]_vars

----------------------------------------------------------------------------
(* The text pipeline of test_text_pipeline, run once *)

\* the lists of at most n elements of S
RECURSIVE ListsUpTo(_, _)
ListsUpTo(S, n) ==
    IF n = 0 THEN {<<>>}
    ELSE LET shorter == ListsUpTo(S, n - 1)
         IN  shorter \cup {Append(l, x) : l \in shorter, x \in S}

TextPipeline ==
    << FuncStep(11, "Load", "load_text_action"),
       FuncStep(12, "Normalize", "normalize_action"),
       FuncStep(13, "Tokenize", "tokenize_action"),
       FuncStep(14, "Filter", "filter_stopwords_action"),
       FuncStep(15, "Join", "join_action") >>

\* "A quick brown fox, and a lazy dog."
QuickBrownFox ==
    <<"A", " ", "q", "u", "i", "c", "k", " ", "b", "r", "o", "w", "n", " ", "f", "o", "x", ",", " ", "a", "n", "d", " ", "a", " ", "l", "a", "z", "y", " ", "d", "o", "g", ".">>

\* "Hello, World! This is an Example with punctuation."
HelloWorld ==
    <<"H", "e", "l", "l", "o", ",", " ", "W", "o", "r", "l", "d", "!", " ", "T", "h", "i", "s", " ", "i", "s", " ", "a", "n", " ", "E", "x", "a", "m", "p", "l", "e", " ", "w", "i", "t", "h", " ", "p", "u", "n", "c", "t", "u", "a", "t", "i", "o", "n", ".">>

\* the mappings the Context of the text pipeline is built from
TextContexts ==
    {<<>>, [src |-> QuickBrownFox], [src |-> HelloWorld]}
        \cup {[src |-> t] : t \in ListsUpTo({"A", "a", "n", "d", " ", ","}, MaxText)}

InitText ==
    /\ steps = [outer |-> TextPipeline, inner |-> <<>>]
    /\ instances = {}
    /\ created = 0
    /\ held = {}
    /\ ctx = <<>>
    /\ calls = <<>>
    /\ raised = "none"
    /\ last = NoOp
    /\ thr = [t \in Threads |-> Idle]
    /\ AuxInit

NextText == \E initial \in TextContexts : Execute(initial)

SpecText == InitText /\ [][NextText]_vars

----------------------------------------------------------------------------
(* A pipeline of a decorator or a nested pipeline and a later step, run once *)

\* outer = [s, U2] and the inner pipeline, as a caller has built them
InitErrors ==
    /\ \E s \in Decorators \cup {N1} :
       \E i \in ListsUpTo({F1, F2, D5}, MaxDrawn) :
          steps = [outer |-> <<s, U2>>, inner |-> i]
    /\ instances = {SingletonObj(1)}
    /\ created = 1
    /\ held = {SingletonObj(1)}
    /\ ctx = <<>>
    /\ calls = <<>>
    /\ raised = "none"
    /\ last = NoOp
    /\ thr = [t \in Threads |-> Idle]
    /\ AuxInit

NextErrors == \E initial \in InitialContexts : Execute(initial)

SpecErrors == InitErrors /\ [][NextErrors]_vars

----------------------------------------------------------------------------
(* StudentDatabase of src/main.py: add_student and find_by_name *)

\* a Student object: its identity n and its fields
Student(n, age, name) == [cls |-> "Student", n |-> n, age |-> age, name |-> name]

\* the students and the names of the tests
Students == {Student(1, 20, "Alice"), Student(2, 22, "Bob"), Student(3, 19, "Alice")}
StudentNames == {"Alice", "Bob", "Charlie"}

\* a find_by_name that stops at the first match
FindByNameFirst(students, name) ==
    LET Match(student) == student.name = name
        found == SelectSeq(students, Match)
    IN  IF found = <<>> THEN <<>> ELSE <<found[1]>>

\* [student for student in self._students if student.name == name]
FindByName(students, name) ==
    LET Match(student) == student.name = name
    IN  SelectSeq(students, Match)

DbCall(op, arg) ==
    [op |-> op, p |-> "db", step |-> arg, index |-> 0, before |-> db, initial |-> <<>>]

\* db = StudentDatabase()
InitStudents ==
    /\ db = <<>>
    /\ out = <<>>
    /\ heap = <<>>
    /\ copy = <<>>
    /\ steps = [p \in Pipelines |-> <<>>]
    /\ instances = {}
    /\ created = 0
    /\ held = {}
    /\ ctx = <<>>
    /\ calls = <<>>
    /\ raised = "none"
    /\ last = NoOp
    /\ thr = [t \in Threads |-> Idle]

\* db.add_student(student)
AddStudent(student) ==
    /\ Len(db) < MaxStudents
    /\ db' = Append(db, student)
    /\ last' = DbCall("add_student", student)
    /\ UNCHANGED <<out, heap, copy, steps, instances, created, held, ctx, calls, raised, thr>>

\* results = db.find_by_name(name)
FindStudents(name) ==
    /\ out' = FindByName(db, name)
    /\ last' = DbCall("find_by_name", name)
    /\ UNCHANGED <<db, heap, copy, steps, instances, created, held, ctx, calls, raised, thr>>

NextStudents ==
    \/ \E student \in Students : AddStudent(student)
    \/ \E name \in StudentNames : FindStudents(name)

SpecStudents == InitStudents /\ [][NextStudents]_vars

----------------------------------------------------------------------------
(* Pipelines nested two levels deep, built and then printed *)

\* NestedPipelineStep("Deep", deep), held by the inner pipeline
N2 == NestedPipelineStep(2, "Deep", "deep")
\* BeforeAfterDecorator(N1)
D3 == BeforeAfterDecorator(3, N1, "None", "None")

\* outer, inner and deep as a caller has built them
InitDescribe ==
    /\ \E o \in ListsUpTo({F1, L1, D1, D3, N1, SingletonObj(1)}, MaxDrawn) :
       \E i \in ListsUpTo({F2, D1, N2}, MaxDrawn) :
       \E d \in ListsUpTo({U1}, 1) :
          steps = [outer |-> o, inner |-> i, deep |-> d]
    /\ instances = {SingletonObj(1)}
    /\ created = 1
    /\ held = {SingletonObj(1)}
    /\ ctx = <<>>
    /\ calls = <<>>
    /\ raised = "none"
    /\ last = NoOp
    /\ thr = [t \in Threads |-> Idle]
    /\ AuxInit

NextDescribe == Describe

SpecDescribe == InitDescribe /\ [][NextDescribe]_vars

----------------------------------------------------------------------------
(* Properties of Pipeline.execute *)

Outer == steps["outer"]
Inner == steps["inner"]
Executed == last.op = "execute"
Log(data) == CtxGet(data, "log", <<>>)

\* steps whose execute appends the step's name to the "log" list and returns
Appender(s) ==
    \/ s.cls = "FuncStep" /\ s.action = "append"
    \/ s.cls = "UserStep"

\* steps that run no other step
Leaf(s) == s.cls \in {"FuncStep", "UserStep", "SingletonStep"}

Raises(s) == s.cls = "FuncStep" /\ s.action = "append_raise"

Names(l) == [i \in 1..Len(l) |-> Name(l[i])]

\* the step.execute calls made, in order
ExecuteCalls ==
    LET IsExecute(e) == e.kind = "execute"
        sel == SelectSeq(calls, IsExecute)
    IN  [i \in 1..Len(sel) |-> sel[i].who]

\* C1: when every step of the pipeline appends its name to the "log" list of
\* the Context, then after execute the list is what it was before, followed
\* by the names of the steps in list order, one entry per occurrence.
C1_ExecuteInListOrder ==
    (Executed /\ \A i \in 1..Len(Outer) : Appender(Outer[i]))
        => /\ raised = "none"
           /\ Log(ctx) = Log(last.initial) \o Names(Outer)
           /\ ExecuteCalls = Outer

C1_Witness ==
    /\ Executed
    /\ Outer = <<U1, F1, U1>>
    /\ Log(ctx) = <<"init", "U", "A", "U">>

\* the position of the first step of l that raises, 0 when none does
FirstRaising(l) ==
    IF \E i \in 1..Len(l) : Raises(l[i])
    THEN CHOOSE i \in 1..Len(l) : Raises(l[i]) /\ \A j \in 1..(i - 1) : ~Raises(l[j])
    ELSE 0

\* the names of the steps of l that write to the "log" list
Written(l) ==
    LET Writes(s) == s.cls # "SingletonStep"
    IN  Names(SelectSeq(l, Writes))

\* C2: when step k of a pipeline of plain steps raises, execute raises that
\* error, the steps 1..k are the only ones executed, and the Context holds
\* what steps 1..k wrote, the write of step k before it raised included.
C2_FailFastNoRollback ==
    (Executed /\ (\A i \in 1..Len(Outer) : Leaf(Outer[i])) /\ FirstRaising(Outer) # 0)
        => LET k == FirstRaising(Outer)
           IN  /\ raised = "StepError"
               /\ ExecuteCalls = SubSeq(Outer, 1, k)
               /\ Log(ctx) = Log(last.initial) \o Written(SubSeq(Outer, 1, k))

C2_Witness ==
    /\ Executed
    /\ Outer = <<F1, F2, U1>>
    /\ raised = "StepError"
    /\ Log(ctx) = <<"init", "A", "B">>

\* l with every NestedPipelineStep replaced by the steps of its pipeline
RECURSIVE Flatten(_)
Flatten(l) ==
    IF l = <<>> THEN <<>>
    ELSE (IF Head(l).cls = "NestedPipelineStep"
          THEN steps[Head(l).pipeline]
          ELSE <<Head(l)>>) \o Flatten(Tail(l))

\* C10: a NestedPipelineStep runs its pipeline on the Context of the outer
\* run: when no step raises, the "log" list after execute holds the writes of
\* the outer and the inner steps in the order in which they ran, each inner
\* write after those of the earlier outer steps and before those of the later.
C10_NestedSharesContext ==
    (/\ Executed
     /\ \A i \in 1..Len(Outer) : Leaf(Outer[i]) \/ Outer[i] = N1
     /\ \A i \in 1..Len(Flatten(Outer)) : ~Raises(Flatten(Outer)[i]))
        => /\ raised = "none"
           /\ Log(ctx) = Log(last.initial) \o Written(Flatten(Outer))

C10_Witness ==
    /\ Executed
    /\ Outer = <<N1, U1>>
    /\ Inner = <<F1>>
    /\ Log(last.initial) = <<"init">>
    /\ Log(ctx) = <<"init", "A", "U">>

----------------------------------------------------------------------------
(* Properties of insert_step and remove_step *)

Before == last.before
Current == steps[last.p]

\* C3: insert_step with an index outside [0, length] raises an out-of-bounds
\* error and leaves the step list as it was.
C3_InsertOutOfRangeFails ==
    (last.op = "insert_step" /\ (last.index < 0 \/ last.index > Len(Before)))
        => raised = "IndexError" /\ Current = Before

\* l without its k-th element
Without(l, k) == [i \in 1..(Len(l) - 1) |-> IF i < k THEN l[i] ELSE l[i + 1]]

\* C4: a remove_step(step) that returns has removed the first element that
\* is the very object step, and nothing else.
C4_RemoveByIdentity ==
    (last.op = "remove_step" /\ raised = "none")
        => \E k \in 1..Len(Before) :
              /\ Before[k] = last.step
              /\ \A j \in 1..(k - 1) : Before[j] # last.step
              /\ Current = Without(Before, k)

\* C5: remove_step(step) of an object that is not in the list raises a
\* not-found error and leaves the list as it was.
C5_RemoveAbsentFails ==
    (last.op = "remove_step" /\ \A i \in 1..Len(Before) : Before[i] # last.step)
        => raised = "ValueError" /\ Current = Before

----------------------------------------------------------------------------
(* Properties of SingletonStep *)

\* C7: every SingletonStep() request of a single thread of control returns
\* the same object, the only SingletonStep object ever constructed.
C7_SingletonIdentity ==
    /\ Cardinality(held) <= 1
    /\ created <= 1
    /\ held \subseteq instances

\* C6: when several threads call SingletonStep() at the same time, one
\* object is constructed and every caller is returned that object.
C6_ConcurrentSingleton ==
    /\ created <= 1
    /\ \A t, u \in Threads :
          (thr[t].pc = "done" /\ thr[u].pc = "done") => thr[t].ret = thr[u].ret

C7_Witness ==
    /\ last.op = "SingletonStep"
    /\ last.index = 1
    /\ held = {SingletonObj(1)}
    /\ created = 1

----------------------------------------------------------------------------
(* Properties of one step, checked under SpecSteps *)

Subject == last.step
StepRan == last.op = "step.execute"

\* the calls a decorator d makes itself: its hooks and its wrapped step
OwnCalls(d) ==
    LET Own(e) == e \in {Ev("before", d), Ev("execute", d.step), Ev("after", d)}
    IN  SelectSeq(calls, Own)

\* C8: a BeforeAfterDecorator whose hooks and wrapped step all return calls
\* the before hook, the wrapped step and the after hook once each, in that
\* order; a hook that is absent is left out and the others keep their order.
C8_DecoratorOrder ==
    (StepRan /\ Subject.cls = "BeforeAfterDecorator" /\ raised = "none")
        => OwnCalls(Subject) =
              (IF Subject.before = "None" THEN <<>> ELSE <<Ev("before", Subject)>>)
              \o <<Ev("execute", Subject.step)>>
              \o (IF Subject.after = "None" THEN <<>> ELSE <<Ev("after", Subject)>>)

C8_Witness ==
    /\ StepRan
    /\ Subject = BeforeAfterDecorator(2, F1, "mark", "mark")
    /\ raised = "none"
    /\ Log(ctx) = Log(last.initial) \o <<"before", "A", "after">>

\* the legacy function's dict when it returns, given the dict it is called on
Snapshot(f, data) == LegacyCall(f, [data |-> data, err |-> "none"])

\* C9: when the legacy function returns, the Context holds every key of the
\* mutated snapshot with the snapshot's value and every other key it held
\* before with its previous value: a key deleted from the snapshot stays.
\* legacy_uppercase turns {"text": "abc"} into {"text": "ABC"}.
C9_LegacyWriteBack ==
    (StepRan /\ Subject.cls = "LegacyAdapter" /\ raised = "none")
        => LET before == last.initial
               snap == Snapshot(Subject.legacy_func, before).data
           IN  /\ DOMAIN ctx = DOMAIN before \cup DOMAIN snap
               /\ \A k \in DOMAIN ctx :
                     ctx[k] = IF k \in DOMAIN snap THEN snap[k] ELSE before[k]
               /\ (Subject.legacy_func = L1.legacy_func /\ "text" \in DOMAIN before
                      /\ before["text"] = <<"a", "b", "c">>)
                     => /\ ctx["text"] = <<"A", "B", "C">>
                        /\ \A k \in DOMAIN before \ {"text"} : ctx[k] = before[k]

C9_Witness ==
    /\ StepRan
    /\ Subject.cls = "LegacyAdapter"
    /\ Subject.legacy_func = <<Stmt("del", "text", <<>>), Stmt("set", "extra", <<"x">>)>>
    /\ last.initial = [text |-> <<"a", "b", "c">>]
    /\ raised = "none"
    /\ ctx = [text |-> <<"a", "b", "c">>, extra |-> <<"x">>]

\* C19: when the legacy function has added, overwritten or deleted keys of its
\* snapshot and then fails, LegacyAdapter.execute raises that failure and the
\* Context holds the keys and the values it held before the call.
C19_LegacyFailureAtomic ==
    (StepRan /\ Subject.cls = "LegacyAdapter"
        /\ Snapshot(Subject.legacy_func, last.initial).err # "none")
        => /\ raised = Snapshot(Subject.legacy_func, last.initial).err
           /\ DOMAIN ctx = DOMAIN last.initial
           /\ \A k \in DOMAIN ctx : ctx[k] = last.initial[k]

C19_Witness ==
    /\ StepRan
    /\ Subject.cls = "LegacyAdapter"
    /\ Subject.legacy_func = <<Stmt("del", "text", <<>>), Stmt("raise", "text", <<>>)>>
    /\ last.initial = [text |-> <<"a", "b", "c">>]
    /\ Snapshot(Subject.legacy_func, last.initial).data # last.initial
    /\ raised = "LegacyError"
    /\ ctx = [text |-> <<"a", "b", "c">>]

----------------------------------------------------------------------------
(* Propagation of errors, checked under SpecErrors *)

\* the callables of the model that raise
Fails(e) ==
    \/ e.kind = "action" /\ e.who.action = "append_raise"
    \/ e.kind = "before" /\ e.who.before = "raise"
    \/ e.kind = "after" /\ e.who.after = "raise"

\* what a callable that raises raises
Error(e) == IF e.kind = "action" THEN "StepError" ELSE "HookError"

\* C18: a failure raised inside a nested pipeline or by the before hook, the
\* wrapped step or the after hook of a decorator reaches the caller of the
\* outermost execute unchanged, and the failing call is the last call of the
\* run: no later inner step, no after hook of an enclosing decorator and no
\* later outer step runs.
C18_ErrorsPropagate ==
    Executed
        => /\ \A i \in 1..Len(calls) :
                 Fails(calls[i]) => (i = Len(calls) /\ raised = Error(calls[i]))
           /\ raised # "none" => (calls # <<>> /\ Fails(calls[Len(calls)]))
           /\ raised # "none" => \A i \in 1..Len(calls) : calls[i] # Ev("execute", U2)

C18_Witness ==
    /\ Executed
    /\ Outer = <<BeforeAfterDecorator(2, N1, "mark", "mark"), U2>>
    /\ Inner = <<F2, F1>>
    /\ raised = "StepError"
    /\ calls[Len(calls)] = Ev("action", F2)
    /\ Log(ctx) = Log(last.initial) \o <<"before", "B">>

----------------------------------------------------------------------------
(* insert_step within the list *)

\* C17: insert_step(index, step) with 0 <= index <= length returns, puts
\* step at position index (0-based) and moves the steps from that position on
\* one place to the right, the others keeping their order; with index equal
\* to the length the list is what add_step(step) makes of it.
C17_InsertInRange ==
    (last.op = "insert_step" /\ 0 <= last.index /\ last.index <= Len(Before))
        => /\ raised = "none"
           /\ Len(Current) = Len(Before) + 1
           /\ Current[last.index + 1] = last.step
           /\ \A i \in 1..Len(Before) :
                 Current[IF i <= last.index THEN i ELSE i + 1] = Before[i]
           /\ last.index = Len(Before) => Current = ListAppend(Before, last.step)

C17_Witness ==
    /\ last.op = "insert_step"
    /\ last.index = 1
    /\ Before = <<F1, U1>>
    /\ Current = <<F1, F2, U1>>

----------------------------------------------------------------------------
(* Properties of describe *)

Described == last.op = "describe"

\* the text the last pipeline_to_string returned
Text == out[Len(out)]

\* the elements of a set of numbers, in ascending order
RECURSIVE Ascending(_)
Ascending(S) ==
    IF S = {} THEN <<>>
    ELSE LET m == CHOOSE x \in S : \A y \in S : x <= y
         IN  <<m>> \o Ascending(S \ {m})

\* the positions of the "Pipeline with N steps:" headers written behind prefix
HeaderPositions(t, prefix) ==
    Ascending({j \in 2..(Len(t) - 1) : t[j] = "Pipeline with " /\ t[j - 1] = prefix})

\* the N of those headers, in text order
HeaderCounts(t, prefix) ==
    LET pos == HeaderPositions(t, prefix) IN [i \in 1..Len(pos) |-> t[pos[i] + 1]]

\* the numbers of the " i. " markers written behind prefix, in text order
Markers(t, prefix) ==
    LET pos == Ascending({j \in 4..Len(t) :
                    t[j] = ". " /\ t[j - 2] = " " /\ t[j - 3] = prefix})
    IN  [i \in 1..Len(pos) |-> t[pos[i] - 1]]

Numbers(n) == [i \in 1..n |-> ToString(i)]

\* xs repeated n times
RECURSIVE Repeat(_, _)
Repeat(xs, n) == IF n = 0 THEN <<>> ELSE xs \o Repeat(xs, n - 1)

\* how many NestedPipelineStep the outer pipeline holds
NestedCount == Cardinality({i \in 1..Len(Outer) : Outer[i].cls = "NestedPipelineStep"})

\* C12: the header of a pipeline reads the number of steps the pipeline
\* holds, and the markers written at its level are 1..N in order: at the top
\* level for the outer pipeline, and one level down once for every
\* NestedPipelineStep that holds the inner pipeline.
C12_DescribeCounts ==
    Described
        => /\ HeaderCounts(Text, "") = <<ToString(Len(Outer))>>
           /\ Markers(Text, "") = Numbers(Len(Outer))
           /\ HeaderCounts(Text, "  ") = Repeat(<<ToString(Len(Inner))>>, NestedCount)
           /\ Markers(Text, "  ") = Repeat(Numbers(Len(Inner)), NestedCount)

C12_Witness ==
    /\ Described
    /\ Outer = <<F1, N1>>
    /\ Inner = <<F2>>
    /\ last.before = Outer
    /\ Markers(Text, "") = <<"1", "2">>
    /\ Markers(Text, "  ") = <<"1">>

Width(prefix) ==
    CASE prefix = "" -> 0
      [] prefix = "  " -> 2

\* the indentation of the headers of the text, in text order
HeaderIndents(t) ==
    LET pos == Ascending({j \in 2..(Len(t) - 1) : t[j] = "Pipeline with "})
    IN  [i \in 1..Len(pos) |-> Width(t[pos[i] - 1])]

\* the indentation of the markers of the text, in text order
MarkerIndents(t) ==
    LET pos == Ascending({j \in 4..Len(t) : t[j] = ". " /\ t[j - 2] = " "})
    IN  [i \in 1..Len(pos) |-> Width(t[pos[i] - 3])]

\* the pipeline a step holds, directly or under decorators; "" when none
RECURSIVE Held(_)
Held(s) ==
    CASE s.cls = "NestedPipelineStep" -> s.pipeline
      [] s.cls = "BeforeAfterDecorator" -> Held(s.step)
      [] OTHER -> ""

\* the depths of the pipelines (headers) and of the steps (markers) described
\* for the list l at depth d, in text order
RECURSIVE HeaderDepths(_, _), MarkerDepths(_, _)
HeaderDepths(l, d) ==
    LET Below(s) == IF Held(s) = "" THEN <<>> ELSE HeaderDepths(steps[Held(s)], d + 1)
        F[i \in 0..Len(l)] == IF i = 0 THEN <<>> ELSE F[i - 1] \o Below(l[i])
    IN  <<d>> \o F[Len(l)]

MarkerDepths(l, d) ==
    LET Below(s) == IF Held(s) = "" THEN <<>> ELSE MarkerDepths(steps[Held(s)], d + 1)
        F[i \in 0..Len(l)] == IF i = 0 THEN <<>> ELSE F[i - 1] \o <<d>> \o Below(l[i])
    IN  F[Len(l)]

\* C13: the header and the step markers of a pipeline nested at depth d are
\* indented by 2 * d spaces.
C13_IndentPerLevel ==
    Described
        => /\ HeaderIndents(Text) = [i \in 1..Len(HeaderDepths(Outer, 0)) |->
                                        2 * HeaderDepths(Outer, 0)[i]]
           /\ MarkerIndents(Text) = [i \in 1..Len(MarkerDepths(Outer, 0)) |->
                                        2 * MarkerDepths(Outer, 0)[i]]

----------------------------------------------------------------------------
(* Properties of Context.to_dict, checked under SpecContext *)

\* C11: after m = ctx.to_dict(), setting or deleting a key of m or changing a
\* value reached through m leaves what ctx.get returns for every key as it
\* was, and ctx.set leaves m as it was.
C11_ToDictIndependent ==
    /\ last.op \in {"m.set", "m.del", "m.append"} => View(ctx) = last.before
    /\ last.op = "ctx.set" => View(copy) = last.initial

----------------------------------------------------------------------------
(* Properties of the text pipeline, checked under SpecText *)

\* the alphanumeric tokens of src: its maximal runs of alphanumeric
\* characters, lowercased, in their order
Tokens(src) ==
    LET starts == Ascending({i \in 1..Len(src) :
                      IsAlnum(src[i]) /\ (i = 1 \/ ~IsAlnum(src[i - 1]))})
        End(i) == CHOOSE j \in i..Len(src) :
                      /\ \A m \in i..j : IsAlnum(src[m])
                      /\ j = Len(src) \/ ~IsAlnum(src[j + 1])
    IN  [k \in 1..Len(starts) |->
            [m \in 1..(End(starts[k]) - starts[k] + 1) |-> Lower(src[starts[k] + m - 1])]]

\* the tokens t without those of the set S
Dropping(t, S) ==
    LET Kept(x) == x \notin S
    IN  SelectSeq(t, Kept)

\* the tokens t with one space between neighbours
RECURSIVE Spaced(_, _)
Spaced(t, n) ==
    IF n = 0 THEN <<>>
    ELSE IF n = 1 THEN t[1]
    ELSE Spaced(t, n - 1) \o <<" ">> \o t[n]

\* C15: the pipeline [load, normalize, tokenize, filter-stopwords, join] run
\* on a Context whose "src" is a string leaves in "result" the lowercased
\* alphanumeric tokens of src, in their order, without the stopwords, joined
\* by single spaces, with no punctuation left; for "A quick brown fox, and a
\* lazy dog." the result is "quick brown fox lazy dog".
C15_TextPipeline ==
    (Executed /\ "src" \in DOMAIN last.initial)
        => LET src == last.initial["src"]
               kept == Dropping(Tokens(src), stopwords)
           IN  /\ raised = "none"
               /\ "result" \in DOMAIN ctx
               /\ ctx["result"] = Spaced(kept, Len(kept))
               /\ \A i \in 1..Len(ctx["result"]) : ctx["result"][i] \notin {",", ".", "!"}
               /\ src = QuickBrownFox
                     => ctx["result"] = <<"q", "u", "i", "c", "k", " ", "b", "r", "o", "w", "n", " ", "f", "o", "x", " ", "l", "a", "z", "y", " ", "d", "o", "g">>

C15_Witness ==
    /\ Executed
    /\ last.initial = [src |-> QuickBrownFox]
    /\ ctx["tokens"] = << <<"q", "u", "i", "c", "k">>, <<"b", "r", "o", "w", "n">>,
                          <<"f", "o", "x">>, <<"l", "a", "z", "y">>, <<"d", "o", "g">> >>
    /\ ctx["result"] = <<"q", "u", "i", "c", "k", " ", "b", "r", "o", "w", "n", " ", "f", "o", "x", " ", "l", "a", "z", "y", " ", "d", "o", "g">>

----------------------------------------------------------------------------
(* Properties of StudentDatabase, checked under SpecStudents *)

Found == last.op = "find_by_name"

\* how many times x occurs in the list l
Occurrences(l, x) == Cardinality({i \in 1..Len(l) : l[i] = x})

\* C16: find_by_name(n) returns the added students named n, one entry per
\* add, in the order they were added, the empty list when none is named n,
\* and leaves the database as it was.
C16_FindByName ==
    Found
        => LET n == last.step
               at == Ascending({i \in 1..Len(db) : db[i].name = n})
           IN  /\ Len(out) = Len(at)
               /\ \A k \in 1..Len(out) : out[k] = db[at[k]]
               /\ \A x \in Students :
                     Occurrences(out, x) = IF x.name = n THEN Occurrences(db, x) ELSE 0
               /\ (\A i \in 1..Len(db) : db[i].name # n) => out = <<>>
               /\ db = last.before

C16_Witness ==
    /\ Found
    /\ last.step = "Alice"
    /\ db = <<Student(3, 19, "Alice"), Student(2, 22, "Bob"), Student(1, 20, "Alice")>>
    /\ out = <<Student(3, 19, "Alice"), Student(1, 20, "Alice")>>

====
